---- MODULE Spec2Model ----
(***************************************************************************)
(* cpp-micrograd: the Value node, the operator layer that builds the       *)
(* expression graph, and Value::backward (value.cpp / value.hpp).          *)
(*                                                                         *)
(* Numbers.  m_data and m_grad are doubles.  They are modelled as exact    *)
(* rationals <<n, d>> in lowest terms with d > 0; <<0, 0>> stands for a    *)
(* non-finite double (NaN, +Inf, -Inf).  Rounding is not modelled.  The    *)
(* client only calls pow with a negative exponent on a non-zero base, so   *)
(* every value in a reachable state is finite.                             *)
(*                                                                         *)
(* Heap.  Every make_shared<Value> appends one node to heap; a ValuePtr is *)
(* the index of the node.                                                  *)
(***************************************************************************)
EXTENDS Integers, Sequences, FiniteSets, TLC

\* ------------------------------------------------------------------ bounds
MaxNodes == 3
MaxPasses == 2
\* the client of the Value members: objects made and calls made
MaxObjects == 2
MaxCalls == 5
\* the training client: iterations of its loop
MaxIters == 2
\* the mantissa width of double where rounding is modelled (a double has 53)
MantissaBits == 3
\* the calls of backward on one graph in the termination check
LivePasses == 1

\* the doubles and exponents the client passes in
LeafVals == {<<2, 1>>, <<-3, 1>>}
ExpVals == {-1, 2}
Labels == {""}
\* the arguments of set_data, set_grad and add_to_grad, and set_label
DataVals == {<<5, 1>>}
GradVals == {<<1, 2>>, <<-3, 1>>}
LabelVals == {"x"}
\* what random_uniform() returns, the inputs of a forward pass, the step of
\* the client's optimizer, and the MLP constructor's arguments nin and nouts
WeightVals == {<<1, 2>>, <<-1, 2>>}
InputVals == {<<1, 1>>, <<-2, 1>>}
LearningRate == <<1, 2>>
Shapes ==
    {<<1, <<1>>>>, <<2, <<1>>>>, <<1, <<2>>>>, <<1, <<1, 1>>>>}

\* ---------------------------------------------------------------- state
VARIABLES
    heap,     \* the Value objects, in order of allocation
    pc,       \* "sweep" while Value::backward runs its loop, "returned" when
              \* it has just returned, else "idle"
    this,     \* the node backward() was last called on (0: never)
    topo,     \* backward(): the reversed topo vector
    idx,      \* backward(): position of the loop in topo
    pre,      \* history: m_grad of every node when the last backward() began
    passes,   \* number of backward() calls made so far
    calls,    \* history: how often the last backward() has invoked each
              \* node's m_backward_fn
    prog,     \* the client's statements when it runs a fixed program
    ip,       \* the client's position in prog
    mlp,      \* the MLP object: m_layers, each a sequence of neurons [w, b]
    outs,     \* the vector the last MLP::operator() returned
    last,     \* history: the member function of Value the client called
              \* last (op) on node v, for the n-th time in a row, and the
              \* gradient v had before the first of these calls (from)
    mant,     \* the mantissa width of double in this behaviour; 0: wide
              \* enough that no result of the behaviour is rounded
    handles,  \* the nodes the client holds a ValuePtr to, where the client's
              \* handles are followed (SpecOwn)
    freed     \* the nodes whose reference count has reached 0: destroyed

vars ==
    <<heap, pc, this, topo, idx, pre, passes, calls, prog, ip, mlp, outs, last,
      mant, handles, freed>>
bvars == <<this, topo, idx, pre, passes, calls>>

\* ------------------------------------------------------ double arithmetic
Abs(n) == IF n < 0 THEN -n ELSE n

\* F(x, y) with x and y evaluated once, before the call, as the arguments of
\* a C++ call are
Once(F(_, _), x, y) == CHOOSE r \in {F(p[1], p[2]) : p \in {<<x, y>>}} : TRUE

RECURSIVE GCD(_, _)
GCD(a, b) == IF b = 0 THEN a ELSE Once(GCD, b, a % b)

NonFinite == <<0, 0>>
IsFinite(x) == x[2] # 0

Lowest(n, d) ==
    IF d = 0 THEN NonFinite
    ELSE LET g == GCD(Abs(n), Abs(d))
             s == IF d < 0 THEN -1 ELSE 1
         IN <<(s * n) \div g, (s * d) \div g>>

\* n / d in lowest terms
Norm(n, d) == Once(Lowest, n, d)

R(n) == <<n, 1>>

\* n / d, n > 0, with the binary exponent taken out: [n, d, up, down] with
\* 2^(p-1) <= n / d < 2^p, and up / down the power of two taken out
RECURSIVE Scale(_, _, _, _, _)
Scale(n, d, up, down, p) ==
    IF n >= (2 ^ p) * d THEN Scale(n, 2 * d, 2 * up, down, p)
    ELSE IF n < (2 ^ (p - 1)) * d THEN Scale(2 * n, d, up, 2 * down, p)
    ELSE [n |-> n, d |-> d, up |-> up, down |-> down]

\* n / d to the nearest integer, a tie to the even one
NearestEven(n, d) ==
    LET q == n \div d
        r == n % d
    IN IF 2 * r < d THEN q
       ELSE IF 2 * r > d THEN q + 1
       ELSE IF q % 2 = 0 THEN q ELSE q + 1

\* the double nearest to x: round to nearest, ties to even, over a mantissa
\* of mant bits (no rounding when mant = 0)
Fl(x) ==
    IF mant = 0 \/ ~IsFinite(x) \/ x[1] = 0 THEN x
    ELSE LET s == Scale(Abs(x[1]), x[2], 1, 1, mant)
             m == NearestEven(s.n, s.d)
         IN Norm((IF x[1] < 0 THEN -1 ELSE 1) * m * s.up, s.down)

Sum(x, y) ==
    IF IsFinite(x) /\ IsFinite(y)
    THEN LET g == GCD(x[2], y[2])
         IN Fl(Norm(x[1] * (y[2] \div g) + y[1] * (x[2] \div g),
                    (x[2] \div g) * y[2]))
    ELSE NonFinite

\* x + y on doubles
RAdd(x, y) == Once(Sum, x, y)

Product(x, y) ==
    IF IsFinite(x) /\ IsFinite(y)
    THEN LET g1 == GCD(Abs(x[1]), y[2])
             g2 == GCD(Abs(y[1]), x[2])
         IN Fl(Norm((x[1] \div g1) * (y[1] \div g2),
                    (x[2] \div g2) * (y[2] \div g1)))
    ELSE NonFinite

\* x * y on doubles
RMul(x, y) == Once(Product, x, y)

\* std::pow(x, k) for an integral exponent k
RECURSIVE RPow(_, _)
RPow(x, k) ==
    IF k = 0 THEN R(1)
    ELSE IF ~IsFinite(x) THEN NonFinite
    ELSE IF k > 0 THEN RMul(x, RPow(x, k - 1))
    ELSE IF x[1] = 0 THEN NonFinite
    ELSE RPow(Norm(x[2], x[1]), -k)

\* std::tanh(x): transcendental, so a rational stand-in with the same sign,
\* monotonicity, fixed point 0 and range (-1, 1):  x / (1 + |x|)
StdTanh(x) ==
    IF IsFinite(x) THEN Norm(x[1], x[2] + Abs(x[1])) ELSE NonFinite

\* std::exp(x): a rational stand-in, positive, increasing, exp(0) = 1:
\* 1 + x for x >= 0 and 1 / (1 - x) for x < 0
StdExp(x) ==
    IF ~IsFinite(x) THEN NonFinite
    ELSE IF x[1] >= 0 THEN Norm(x[2] + x[1], x[2])
    ELSE Norm(x[2], x[2] - x[1])

\* ---------------------------------------------------------------- nodes
Ptrs == 1..Len(heap)

\* A node holds the members of Value (data, grad, label, op, prev, and fn for
\* what the m_backward_fn closure captured) and three history fields that no
\* code reads: by, the public call that made the node ("scalar" for a wrapped
\* double, "inner" for the intermediate node of a derived operator); args,
\* the operands of the call in argument order; expo, pow's exponent.

\* Value::Value(double, label): a leaf; m_backward_fn is the empty lambda
LeafValue(d, l, by) ==
    [data |-> d, grad |-> R(0), label |-> l, op |-> "", prev |-> {},
     fn |-> [kind |-> "", lhs |-> 0, rhs |-> 0, out |-> 0, exp_val |-> 0,
             t |-> R(0)],
     by |-> by, args |-> <<>>, expo |-> 0]

\* Value::Value(double, children, op, label) followed by the assignment of
\* m_backward_fn in the operator that made it
OpValue(d, children, op, fn, by, args, expo) ==
    [data |-> d, grad |-> R(0), label |-> "", op |-> op, prev |-> children,
     fn |-> fn, by |-> by, args |-> args, expo |-> expo]

NoCall == [op |-> "", v |-> 0, n |-> 0, from |-> R(0)]

NoBackward ==
    /\ pc = "idle"
    /\ this = 0
    /\ topo = <<>>
    /\ idx = 0
    /\ pre = <<>>
    /\ passes = 0
    /\ calls = <<>>

\* a client that has made nothing yet and may call anything
Init ==
    /\ heap = <<>>
    /\ NoBackward
    /\ prog = <<>>
    /\ ip = 1
    /\ mlp = <<>>
    /\ outs = <<>>
    /\ last = NoCall
    /\ mant = 0
    /\ handles = {}
    /\ freed = {}

\* ------------------------------------------------------------ mutators
\* (mutation of add_to_grad: only the first increment is kept)
add_to_grad_first_only(h, p, grad_increment) ==
    [h EXCEPT ![p].grad = IF @ = R(0) THEN grad_increment ELSE @]

\* (mutation of add_to_grad: the increment replaces the gradient)
add_to_grad_overwrite(h, p, grad_increment) ==
    [h EXCEPT ![p].grad = grad_increment]

\* Value::add_to_grad, on the node at p
add_to_grad(h, p, grad_increment) ==
    [h EXCEPT ![p].grad = RAdd(@, grad_increment)]

\* (mutation of zero_grad: m_data = 0.0)
zero_grad_resets_data(h, p) == [h EXCEPT ![p].data = R(0)]

\* (mutation of zero_grad: m_grad is left as it is)
zero_grad_no_effect(h, p) == h

\* Value::zero_grad, on the node at p
zero_grad(h, p) == [h EXCEPT ![p].grad = R(0)]

\* (mutation of set_data: m_grad is assigned as well)
set_data_and_grad(h, p, data) == [h EXCEPT ![p].data = data, ![p].grad = data]

\* Value::set_data
set_data(h, p, data) == [h EXCEPT ![p].data = data]

\* Value::set_grad
set_grad(h, p, grad) == [h EXCEPT ![p].grad = grad]

\* Value::set_label
set_label(h, p, label) == [h EXCEPT ![p].label = label]

\* an empty std::function (tested false by backward's loop)
EmptyFn ==
    [kind |-> "empty", lhs |-> 0, rhs |-> 0, out |-> 0, exp_val |-> 0,
     t |-> R(0)]

\* Value& operator=(const Value&) = default, *dst = *src: every member is
\* assigned (the history field by stays with the object)
CopyAssignment(h, dst, src) ==
    [h EXCEPT ![dst] = [h[src] EXCEPT !.by = h[dst].by]]

\* what the defaulted move leaves in *src: the doubles stay; the string, the
\* set and the function are valid but unspecified, here either untouched or
\* empty
MovedFrom(x) ==
    {x, [x EXCEPT !.label = "", !.prev = {}, !.args = <<>>, !.fn = EmptyFn]}

\* Value& operator=(Value&&) = default, *dst = std::move(*src), leaving m
\* in *src
MoveAssignment(h, dst, src, m) ==
    IF dst = src THEN [h EXCEPT ![dst] = m]
    ELSE [h EXCEPT ![dst] = [h[src] EXCEPT !.by = h[dst].by], ![src] = m]

\* -------------------------------------------------------- operator layer
\* Each operator maps the heap to the heap with the new nodes appended; the
\* ValuePtr it returns is the last node of the result.
NoFn ==
    [kind |-> "", lhs |-> 0, rhs |-> 0, out |-> 0, exp_val |-> 0, t |-> R(0)]

\* make_value(double, label)
make_value(h, d, l, by) == Append(h, LeafValue(d, l, by))

\* (mutation of operator+: the closure captures lhs in place of rhs)
OperatorAdd_lhs_twice(h, lhs, rhs, by) ==
    Append(h, OpValue(RAdd(h[lhs].data, h[rhs].data), {lhs, rhs}, "+",
                      [NoFn EXCEPT !.kind = "+", !.out = Len(h) + 1,
                                   !.lhs = lhs, !.rhs = lhs],
                      by, <<lhs, rhs>>, 0))

\* operator+(const ValuePtr&, const ValuePtr&)
OperatorAdd(h, lhs, rhs, by) ==
    Append(h, OpValue(RAdd(h[lhs].data, h[rhs].data), {lhs, rhs}, "+",
                      [NoFn EXCEPT !.kind = "+", !.out = Len(h) + 1,
                                   !.lhs = lhs, !.rhs = rhs],
                      by, <<lhs, rhs>>, 0))

\* (mutation of operator*: the closure captures lhs in place of rhs)
OperatorMul_lhs_twice(h, lhs, rhs, by) ==
    Append(h, OpValue(RMul(h[lhs].data, h[rhs].data), {lhs, rhs}, "*",
                      [NoFn EXCEPT !.kind = "*", !.out = Len(h) + 1,
                                   !.lhs = lhs, !.rhs = lhs],
                      by, <<lhs, rhs>>, 0))

\* operator*(const ValuePtr&, const ValuePtr&)
OperatorMul(h, lhs, rhs, by) ==
    Append(h, OpValue(RMul(h[lhs].data, h[rhs].data), {lhs, rhs}, "*",
                      [NoFn EXCEPT !.kind = "*", !.out = Len(h) + 1,
                                   !.lhs = lhs, !.rhs = rhs],
                      by, <<lhs, rhs>>, 0))

\* (mutation of pow: the closure captures exp_val - 1 as the exponent)
pow_captures_lower_exponent(h, base, exp_val, by) ==
    Append(h, OpValue(RPow(h[base].data, exp_val), {base}, "pow",
                      [NoFn EXCEPT !.kind = "pow", !.out = Len(h) + 1,
                                   !.lhs = base,
                                   !.exp_val = exp_val - 1],
                      by, <<base>>, exp_val))

\* pow(const ValuePtr&, double)
pow(h, base, exp_val, by) ==
    Append(h, OpValue(RPow(h[base].data, exp_val), {base}, "pow",
                      [NoFn EXCEPT !.kind = "pow", !.out = Len(h) + 1,
                                   !.lhs = base,
                                   !.exp_val = exp_val],
                      by, <<base>>, exp_val))

\* (mutation of tanh: the closure captures the operand's value, not t)
tanh_captures_input(h, v, by) ==
    LET t == StdTanh(h[v].data)
    IN Append(h, OpValue(t, {v}, "tanh",
                         [NoFn EXCEPT !.kind = "tanh", !.out = Len(h) + 1,
                                      !.lhs = v,
                                      !.t = h[v].data],
                         by, <<v>>, 0))

\* tanh(const ValuePtr&): the closure captures t, the forward result
tanh(h, v, by) ==
    LET t == StdTanh(h[v].data)
    IN Append(h, OpValue(t, {v}, "tanh",
                         [NoFn EXCEPT !.kind = "tanh", !.out = Len(h) + 1,
                                      !.lhs = v, !.t = t],
                         by, <<v>>, 0))

\* exp(const ValuePtr&): the closure captures e, the forward result
exp(h, v, by) ==
    LET e == StdExp(h[v].data)
    IN Append(h, OpValue(e, {v}, "exp",
                         [NoFn EXCEPT !.kind = "exp", !.out = Len(h) + 1,
                                      !.lhs = v, !.t = e],
                         by, <<v>>, 0))

\* operator*(const ValuePtr&, double): lhs * make_value(rhs_val)
OperatorMulVD(h, lhs, rhs_val, by) ==
    LET h1 == make_value(h, rhs_val, "", "scalar")
    IN OperatorMul(h1, lhs, Len(h1), by)

\* operator*(double, const ValuePtr&): make_value(lhs_val) * rhs
OperatorMulDV(h, lhs_val, rhs, by) ==
    LET h1 == make_value(h, lhs_val, "", "scalar")
    IN OperatorMul(h1, Len(h1), rhs, by)

\* (mutation of operator+(ValuePtr, double): the leaf wraps lhs's value)
OperatorAddVD_wraps_lhs(h, lhs, rhs_val, by) ==
    LET h1 == make_value(h, h[lhs].data, "", "scalar")
    IN OperatorAdd(h1, lhs, Len(h1), by)

\* operator+(const ValuePtr&, double): lhs + make_value(rhs_val)
OperatorAddVD(h, lhs, rhs_val, by) ==
    LET h1 == make_value(h, rhs_val, "", "scalar")
    IN OperatorAdd(h1, lhs, Len(h1), by)

\* operator+(double, const ValuePtr&): make_value(lhs_val) + rhs
OperatorAddDV(h, lhs_val, rhs, by) ==
    LET h1 == make_value(h, lhs_val, "", "scalar")
    IN OperatorAdd(h1, Len(h1), rhs, by)

\* (mutation of operator-(ValuePtr): v * 1.0)
OperatorNeg_positive(h, v, by) == OperatorMulVD(h, v, R(1), by)

\* operator-(const ValuePtr&): v * -1.0
OperatorNeg(h, v, by) == OperatorMulVD(h, v, R(-1), by)

\* operator-(const ValuePtr&, const ValuePtr&): lhs + (-rhs)
OperatorSub(h, lhs, rhs, by) ==
    LET h1 == OperatorNeg(h, rhs, "inner")
    IN OperatorAdd(h1, lhs, Len(h1), by)

\* (mutation of operator/: lhs * pow(rhs, -2.0))
OperatorDiv_square(h, lhs, rhs, by) ==
    LET h1 == pow(h, rhs, -2, "inner")
    IN OperatorMul(h1, lhs, Len(h1), by)

\* operator/(const ValuePtr&, const ValuePtr&): lhs * pow(rhs, -1.0)
OperatorDiv(h, lhs, rhs, by) ==
    LET h1 == pow(h, rhs, -1, "inner")
    IN OperatorMul(h1, lhs, Len(h1), by)

\* (mutation of operator/(ValuePtr, double): lhs * make_value(rhs_val))
OperatorDivVD_multiplies(h, lhs, rhs_val, by) ==
    LET h1 == make_value(h, rhs_val, "", "scalar")
    IN OperatorMul(h1, lhs, Len(h1), by)

\* operator/(const ValuePtr&, double): lhs / make_value(rhs_val)
OperatorDivVD(h, lhs, rhs_val, by) ==
    LET h1 == make_value(h, rhs_val, "", "scalar")
    IN OperatorDiv(h1, lhs, Len(h1), by)

\* ------------------------------------------------------- Value::backward
RSub(x, y) == RAdd(x, RMul(R(-1), y))

\* one call of v's m_backward_fn; the closure reads and writes the nodes it
\* captured (lhs, rhs, out)
backward_fn(h, v) ==
    LET f == h[v].fn
        out == f.out
    IN
    CASE f.kind = "+" ->
           LET h1 == add_to_grad(h, f.lhs, h[out].grad)
           IN add_to_grad(h1, f.rhs, h1[out].grad)
      [] f.kind = "*" ->
           LET h1 == add_to_grad(h, f.lhs, RMul(h[f.rhs].data, h[out].grad))
           IN add_to_grad(h1, f.rhs, RMul(h1[f.lhs].data, h1[out].grad))
      [] f.kind = "pow" ->
           add_to_grad(h, f.lhs,
               RMul(RMul(R(f.exp_val), RPow(h[f.lhs].data, f.exp_val - 1)),
                    h[out].grad))
      [] f.kind = "tanh" ->
           add_to_grad(h, f.lhs,
               RMul(RSub(R(1), RMul(f.t, f.t)), h[out].grad))
      [] f.kind = "exp" ->
           add_to_grad(h, f.lhs, RMul(f.t, h[out].grad))
      [] OTHER -> h

\* std::set<ValuePtr> iterates m_prev in pointer order, which the allocator
\* decides.  rev is the set of two-operand nodes whose operand allocated
\* later has the lower address.
ChildOrder(h, rev, v) ==
    LET c == h[v].prev IN
    IF c = {} THEN <<>>
    ELSE LET lo == CHOOSE x \in c : \A y \in c : x <= y
             hi == CHOOSE x \in c : \A y \in c : y <= x
         IN IF lo = hi THEN <<lo>>
            ELSE IF v \in rev THEN <<hi, lo>> ELSE <<lo, hi>>

\* the "comes first" pairs that rev fixes
Before(h, rev) ==
    {<<ChildOrder(h, rev, v)[1], ChildOrder(h, rev, v)[2]>> :
        v \in {u \in 1..Len(h) : Cardinality(h[u].prev) = 2}}

\* some assignment of addresses gives these pairs: the relation has no cycle
RECURSIVE Acyclic(_, _)
Acyclic(S, E) ==
    IF S = {} THEN TRUE
    ELSE LET src == {s \in S : ~\E e \in E : e[2] = s /\ e[1] \in S}
         IN src # {} /\ Acyclic(S \ src, E)

PointerOrders(h) ==
    {rev \in SUBSET {u \in 1..Len(h) : Cardinality(h[u].prev) = 2} :
        Acyclic(1..Len(h), Before(h, rev))}

\* the nodes reached from the set N in up to n operand links
RECURSIVE Closure(_, _, _)
Closure(h, N, n) ==
    IF n = 0 THEN N
    ELSE Closure(h, N \cup UNION {h[u].prev : u \in N}, n - 1)

\* the build_topo lambda; st holds the locals visited and topo
RECURSIVE build_topo(_, _, _, _)
RECURSIVE build_topo_children(_, _, _, _)
\* (mutation of build_topo: no test of visited, a node is entered again on
\* every path that leads to it)
build_topo_revisits(h, rev, v, st) ==
    LET s1 == [st EXCEPT !.visited = @ \cup {v}]
        s2 == build_topo_children(h, rev, ChildOrder(h, rev, v), s1)
    IN [s2 EXCEPT !.topo = Append(@, v)]

\* (mutation of build_topo: the node is appended before its operands)
build_topo_preorder(h, rev, v, st) ==
    IF v \in st.visited THEN st
    ELSE LET s1 == [st EXCEPT !.visited = @ \cup {v}, !.topo = Append(@, v)]
         IN build_topo_children(h, rev, ChildOrder(h, rev, v), s1)

build_topo(h, rev, v, st) ==
    IF v \in st.visited THEN st
    ELSE LET s1 == [st EXCEPT !.visited = @ \cup {v}]
             s2 == build_topo_children(h, rev, ChildOrder(h, rev, v), s1)
         IN [s2 EXCEPT !.topo = Append(@, v)]
\* (mutation of the loop over m_prev: it returns after the first operand)
build_topo_children_first_only(h, rev, cs, st) ==
    IF cs = <<>> THEN st ELSE build_topo(h, rev, Head(cs), st)

build_topo_children(h, rev, cs, st) ==
    IF cs = <<>> THEN st
    ELSE build_topo_children(h, rev, Tail(cs), build_topo(h, rev, Head(cs), st))

\* (mutation of std::reverse: the call is left out)
Reverse_omitted(s) == s

\* std::reverse
Reverse(s) == [i \in 1..Len(s) |-> s[Len(s) + 1 - i]]

\* --------------------------------------------------------------- actions
\* The client calls the library from one thread; while backward() runs
\* (pc = "sweep") nothing else does.
Call == pc \notin {"sweep", "undefined"} /\ pc' = "idle" /\ last' = NoCall

\* the client calls member function op of the node at v
Member(op, v) ==
    /\ pc \notin {"sweep", "undefined"}
    /\ pc' = "idle"
    /\ last' = IF last.op = op /\ last.v = v
               THEN [last EXCEPT !.n = @ + 1]
               ELSE [op |-> op, v |-> v, n |-> 1, from |-> heap[v].grad]

MakeValue(d, l) ==
    /\ Call
    /\ heap' = make_value(heap, d, l, "make_value")
    /\ UNCHANGED bvars

Add(lhs, rhs) ==
    /\ Call
    /\ heap' = OperatorAdd(heap, lhs, rhs, "add")
    /\ UNCHANGED bvars

Mul(lhs, rhs) ==
    /\ Call
    /\ heap' = OperatorMul(heap, lhs, rhs, "mul")
    /\ UNCHANGED bvars

\* the base is non-zero when the exponent is negative (finite results only)
Pow(base, exp_val) ==
    /\ Call
    /\ exp_val < 0 => heap[base].data[1] # 0
    /\ heap' = pow(heap, base, exp_val, "pow")
    /\ UNCHANGED bvars

Tanh(v) ==
    /\ Call
    /\ heap' = tanh(heap, v, "tanh")
    /\ UNCHANGED bvars

Exp(v) ==
    /\ Call
    /\ heap' = exp(heap, v, "exp")
    /\ UNCHANGED bvars

Neg(v) ==
    /\ Call
    /\ heap' = OperatorNeg(heap, v, "neg")
    /\ UNCHANGED bvars

Sub(lhs, rhs) ==
    /\ Call
    /\ heap' = OperatorSub(heap, lhs, rhs, "sub")
    /\ UNCHANGED bvars

\* the divisor is non-zero (finite results only)
Div(lhs, rhs) ==
    /\ Call
    /\ heap[rhs].data[1] # 0
    /\ heap' = OperatorDiv(heap, lhs, rhs, "div")
    /\ UNCHANGED bvars

AddVD(lhs, rhs_val) ==
    /\ Call
    /\ heap' = OperatorAddVD(heap, lhs, rhs_val, "add_vd")
    /\ UNCHANGED bvars

AddDV(lhs_val, rhs) ==
    /\ Call
    /\ heap' = OperatorAddDV(heap, lhs_val, rhs, "add_dv")
    /\ UNCHANGED bvars

MulVD(lhs, rhs_val) ==
    /\ Call
    /\ heap' = OperatorMulVD(heap, lhs, rhs_val, "mul_vd")
    /\ UNCHANGED bvars

MulDV(lhs_val, rhs) ==
    /\ Call
    /\ heap' = OperatorMulDV(heap, lhs_val, rhs, "mul_dv")
    /\ UNCHANGED bvars

DivVD(lhs, rhs_val) ==
    /\ Call
    /\ rhs_val[1] # 0
    /\ heap' = OperatorDivVD(heap, lhs, rhs_val, "div_vd")
    /\ UNCHANGED bvars

\* operator-(const ValuePtr&, double) and operator-(double, const ValuePtr&)
\* are declared in value.hpp and defined nowhere: a client that calls one has
\* an undefined reference, so the call yields no node and the client goes no
\* further.
SubVD(lhs, rhs_val) ==
    /\ pc \notin {"sweep", "undefined"}
    /\ pc' = "undefined"
    /\ UNCHANGED <<heap, bvars, last>>

SubDV(lhs_val, rhs) ==
    /\ pc \notin {"sweep", "undefined"}
    /\ pc' = "undefined"
    /\ UNCHANGED <<heap, bvars, last>>

ZeroGrad(v) ==
    /\ Member("zero_grad", v)
    /\ heap' = zero_grad(heap, v)
    /\ UNCHANGED bvars

\* (mutation of Value::backward: m_grad += 1.0 in place of m_grad = 1.0)
Backward_adds_seed(v, rev) ==
    /\ pc \notin {"sweep", "undefined"}
    /\ LET st == build_topo(heap, rev, v, [visited |-> {}, topo |-> <<>>])
       IN topo' = Reverse(st.topo)
    /\ heap' = add_to_grad(heap, v, R(1))
    /\ pre' = [i \in 1..Len(heap) |-> heap[i].grad]
    /\ this' = v
    /\ idx' = 1
    /\ pc' = "sweep"
    /\ passes' = passes + 1
    /\ calls' = [i \in 1..Len(heap) |-> 0]
    /\ last' = NoCall

\* (mutation of Value::backward: every node of the graph has its gradient
\* reset before the sweep)
Backward_resets(v, rev) ==
    /\ pc \notin {"sweep", "undefined"}
    /\ LET st == build_topo(heap, rev, v, [visited |-> {}, topo |-> <<>>])
       IN /\ topo' = Reverse(st.topo)
          /\ heap' = [i \in 1..Len(heap) |->
                        IF i = v THEN [heap[i] EXCEPT !.grad = R(1)]
                        ELSE IF i \in st.visited
                        THEN [heap[i] EXCEPT !.grad = R(0)]
                        ELSE heap[i]]
    /\ pre' = [i \in 1..Len(heap) |-> heap[i].grad]
    /\ this' = v
    /\ idx' = 1
    /\ pc' = "sweep"
    /\ passes' = passes + 1
    /\ calls' = [i \in 1..Len(heap) |-> 0]
    /\ last' = NoCall

\* Value::backward up to the loop: build_topo(shared_from_this()),
\* m_grad = 1.0, std::reverse
Backward(v, rev) ==
    /\ pc \notin {"sweep", "undefined"}
    /\ LET st == build_topo(heap, rev, v, [visited |-> {}, topo |-> <<>>])
       IN topo' = Reverse(st.topo)
    /\ heap' = [heap EXCEPT ![v].grad = R(1)]
    /\ pre' = [i \in 1..Len(heap) |-> heap[i].grad]
    /\ this' = v
    /\ idx' = 1
    /\ pc' = "sweep"
    /\ passes' = passes + 1
    /\ calls' = [i \in 1..Len(heap) |-> 0]
    /\ last' = NoCall

\* one iteration of the loop over topo; after the last, backward() returns
\* and its locals are gone
BackwardFn ==
    /\ pc = "sweep"
    /\ heap' = backward_fn(heap, topo[idx])
    /\ calls' = [calls EXCEPT ![topo[idx]] =
                     IF heap[topo[idx]].fn.kind = "empty" THEN @ ELSE @ + 1]
    /\ IF idx = Len(topo)
       THEN pc' = "returned" /\ topo' = <<>> /\ idx' = 0
       ELSE pc' = "sweep" /\ topo' = topo /\ idx' = idx + 1
    /\ UNCHANGED <<this, pre, passes, last>>

Room(n) == Len(heap) + n <= MaxNodes

Next ==
    /\ UNCHANGED <<prog, ip, mlp, outs, mant, handles, freed>>
    /\ \/ \E d \in LeafVals, l \in Labels : Room(1) /\ MakeValue(d, l)
       \/ \E lhs, rhs \in Ptrs : Room(1) /\ Add(lhs, rhs)
       \/ \E lhs, rhs \in Ptrs : Room(1) /\ Mul(lhs, rhs)
       \/ \E base \in Ptrs, exp_val \in ExpVals : Room(1) /\ Pow(base, exp_val)
       \/ \E v \in Ptrs : Room(1) /\ Tanh(v)
       \/ \E v \in Ptrs : Room(1) /\ Exp(v)
       \/ \E v \in Ptrs, rev \in PointerOrders(heap) :
             passes < MaxPasses /\ Backward(v, rev)
       \/ BackwardFn

Spec == Init /\ [][Next]_vars

\* the client of the termination check: the same operations, with LivePasses
\* calls of backward on a graph
NextLive ==
    /\ UNCHANGED <<prog, ip, mlp, outs, mant, handles, freed>>
    /\ \/ \E d \in LeafVals, l \in Labels : Room(1) /\ MakeValue(d, l)
       \/ \E lhs, rhs \in Ptrs : Room(1) /\ Add(lhs, rhs)
       \/ \E lhs, rhs \in Ptrs : Room(1) /\ Mul(lhs, rhs)
       \/ \E base \in Ptrs, exp_val \in ExpVals : Room(1) /\ Pow(base, exp_val)
       \/ \E v \in Ptrs : Room(1) /\ Tanh(v)
       \/ \E v \in Ptrs : Room(1) /\ Exp(v)
       \/ \E v \in Ptrs, rev \in PointerOrders(heap) :
             passes < LivePasses /\ Backward(v, rev)
       \/ BackwardFn

\* Value::backward is a loop of a single-threaded program: once entered, it
\* goes on while an iteration is left
SpecLive ==
    /\ Init
    /\ [][NextLive]_vars
    /\ WF_vars(BackwardFn /\ UNCHANGED <<prog, ip, mlp, outs, mant, handles, freed>>)

\* ------------------------------------------- a client of the Value members
SetData(v, data) ==
    /\ Member("set_data", v)
    /\ heap' = set_data(heap, v, data)
    /\ UNCHANGED bvars

SetGrad(v, grad) ==
    /\ Member("set_grad", v)
    /\ heap' = set_grad(heap, v, grad)
    /\ UNCHANGED bvars

AddToGrad(v, grad_increment) ==
    /\ Member("add_to_grad", v)
    /\ heap' = add_to_grad(heap, v, grad_increment)
    /\ UNCHANGED bvars

SetLabel(v, label) ==
    /\ Member("set_label", v)
    /\ heap' = set_label(heap, v, label)
    /\ UNCHANGED bvars

CopyAssign(dst, src) ==
    /\ Member("operator=", dst)
    /\ heap' = CopyAssignment(heap, dst, src)
    /\ UNCHANGED bvars

MoveAssign(dst, src) ==
    /\ Member("operator=", dst)
    /\ \E m \in MovedFrom(heap[src]) :
          heap' = MoveAssignment(heap, dst, src, m)
    /\ UNCHANGED bvars

\* This client makes up to MaxObjects nodes and calls, up to MaxCalls times,
\* any member function on any of them; ip counts its calls.
Called == ip <= MaxCalls /\ ip' = ip + 1 /\ UNCHANGED <<prog, mlp, outs, mant, handles, freed>>

NextValue ==
    \/ \E d \in LeafVals, l \in Labels :
          Len(heap) < MaxObjects /\ MakeValue(d, l) /\ Called
    \/ \E lhs, rhs \in Ptrs : Len(heap) < MaxObjects /\ Add(lhs, rhs) /\ Called
    \/ \E lhs, rhs \in Ptrs : Len(heap) < MaxObjects /\ Mul(lhs, rhs) /\ Called
    \/ \E v \in Ptrs, d \in DataVals : SetData(v, d) /\ Called
    \/ \E v \in Ptrs, g \in GradVals : SetGrad(v, g) /\ Called
    \/ \E v \in Ptrs, g \in GradVals : AddToGrad(v, g) /\ Called
    \/ \E v \in Ptrs : ZeroGrad(v) /\ Called
    \/ \E v \in Ptrs, l \in LabelVals : SetLabel(v, l) /\ Called
    \/ \E dst, src \in Ptrs : CopyAssign(dst, src) /\ Called
    \/ \E dst, src \in Ptrs : MoveAssign(dst, src) /\ Called
    \/ \E v \in Ptrs, rev \in PointerOrders(heap) : Backward(v, rev) /\ Called
    \/ BackwardFn /\ UNCHANGED <<prog, ip, mlp, outs, mant, handles, freed>>

SpecValue == Init /\ [][NextValue]_vars

\* ------------------------------------------------- Neuron, Layer and MLP
\* A Neuron is [w |-> m_w, b |-> m_b], a Layer is its m_neurons, and m_layers
\* is the sequence of the layers.  A constructor or a call maps the heap to
\* [h |-> the heap with the new nodes, obj |-> what it built or returned].

\* Neuron::Neuron, the loop: m_w.push_back(make_value(random_uniform()));
\* ws holds the values random_uniform() returns
RECURSIVE Neuron_weights(_, _, _)
Neuron_weights(h, m_w, ws) ==
    IF ws = <<>> THEN [h |-> h, obj |-> m_w]
    ELSE LET h1 == make_value(h, Head(ws), "", "make_value")
         IN Neuron_weights(h1, Append(m_w, Len(h1)), Tail(ws))

\* Neuron::Neuron(nin), nin = Len(ws)
Neuron_ctor(h, ws) ==
    LET r == Neuron_weights(h, <<>>, ws)
        h1 == make_value(r.h, R(0), "", "make_value")
    IN [h |-> h1, obj |-> [w |-> r.obj, b |-> Len(h1)]]

\* Layer::Layer(nin, nout): m_neurons.emplace_back(nin), nout times; ws holds
\* the nin * nout values random_uniform() returns
RECURSIVE Layer_ctor(_, _, _, _, _)
Layer_ctor(h, m_neurons, nin, nout, ws) ==
    IF nout = 0 THEN [h |-> h, obj |-> m_neurons]
    ELSE LET r == Neuron_ctor(h, SubSeq(ws, 1, nin))
         IN Layer_ctor(r.h, Append(m_neurons, r.obj), nin, nout - 1,
                       SubSeq(ws, nin + 1, Len(ws)))

\* MLP::MLP(nin, nouts): size = nin; for each nout a Layer(size, nout), then
\* size = nout
RECURSIVE MLP_ctor(_, _, _, _, _)
MLP_ctor(h, m_layers, size, nouts, ws) ==
    IF nouts = <<>> THEN [h |-> h, obj |-> m_layers]
    ELSE LET nout == Head(nouts)
             r == Layer_ctor(h, <<>>, size, nout, SubSeq(ws, 1, size * nout))
         IN MLP_ctor(r.h, Append(m_layers, r.obj), nout, Tail(nouts),
                     SubSeq(ws, size * nout + 1, Len(ws)))

\* the number of random_uniform() calls of MLP(nin, nouts)
RECURSIVE NumWeights(_, _)
NumWeights(size, nouts) ==
    IF nouts = <<>> THEN 0
    ELSE size * Head(nouts) + NumWeights(Head(nouts), Tail(nouts))

\* Neuron::operator(), the loop: act = act + m_w[i] * x[i]
RECURSIVE Neuron_sum(_, _, _, _, _)
Neuron_sum(h, n, x, i, act) ==
    IF i > Len(n.w) THEN [h |-> h, obj |-> act]
    ELSE LET h1 == OperatorMul(h, n.w[i], x[i], "forward")
             h2 == OperatorAdd(h1, act, Len(h1), "forward")
         IN Neuron_sum(h2, n, x, i + 1, Len(h2))

\* Neuron::operator()(x): act = m_b, the loop, return tanh(act)
Neuron_call(h, n, x) ==
    LET r == Neuron_sum(h, n, x, 1, n.b)
        h1 == tanh(r.h, r.obj, "forward")
    IN [h |-> h1, obj |-> Len(h1)]

\* Layer::operator()(x): outs.push_back(neuron(x)) for each neuron
RECURSIVE Layer_call(_, _, _, _)
Layer_call(h, m_neurons, x, outs_) ==
    IF m_neurons = <<>> THEN [h |-> h, obj |-> outs_]
    ELSE LET r == Neuron_call(h, Head(m_neurons), x)
         IN Layer_call(r.h, Tail(m_neurons), x, Append(outs_, r.obj))

\* MLP::operator()(x): x = layer(x) for each layer, return x
RECURSIVE MLP_call(_, _, _)
MLP_call(h, m_layers, x) ==
    IF m_layers = <<>> THEN [h |-> h, obj |-> x]
    ELSE LET r == Layer_call(h, Head(m_layers), x, <<>>)
         IN MLP_call(r.h, Tail(m_layers), r.obj)

\* (mutation of Neuron::parameters: the bias is not pushed)
Neuron_parameters_without_bias(n) == n.w

\* Neuron::parameters(): m_w, then m_b
Neuron_parameters(n) == Append(n.w, n.b)

\* Layer::parameters(): the neurons' parameters, in order
RECURSIVE Layer_parameters(_)
Layer_parameters(m_neurons) ==
    IF m_neurons = <<>> THEN <<>>
    ELSE Neuron_parameters(Head(m_neurons)) \o Layer_parameters(Tail(m_neurons))

\* MLP::parameters(): the layers' parameters, in order
RECURSIVE MLP_parameters(_)
MLP_parameters(m_layers) ==
    IF m_layers = <<>> THEN <<>>
    ELSE Layer_parameters(Head(m_layers)) \o MLP_parameters(Tail(m_layers))

\* MLP::zero_grad, the loop over ps = parameters()
RECURSIVE zero_grad_each(_, _)
zero_grad_each(h, ps) ==
    IF ps = <<>> THEN h ELSE zero_grad_each(zero_grad(h, Head(ps)), Tail(ps))

\* (mutation of MLP::zero_grad: the loop stops one parameter early)
MLP_zero_grad_stops_early(h, m_layers) ==
    LET ps == MLP_parameters(m_layers)
    IN zero_grad_each(h, SubSeq(ps, 1, Len(ps) - 1))

\* MLP::zero_grad()
MLP_zero_grad(h, m_layers) == zero_grad_each(h, MLP_parameters(m_layers))

\* the make_value calls of a client that builds the input vector of values xv
RECURSIVE MakeInputs(_, _, _)
MakeInputs(h, x, xv) ==
    IF xv = <<>> THEN [h |-> h, obj |-> x]
    ELSE LET h1 == make_value(h, Head(xv), "", "make_value")
         IN MakeInputs(h1, Append(x, Len(h1)), Tail(xv))

\* ------------------------------------------------- a client with a program
\* The second client makes three leaves a, b, c (pointers 1, 2, 3) and then
\* runs one of a fixed set of programs over them, the way the repository's
\* tests do.  A statement names the call, its pointer arguments a and b (0:
\* none) and its double argument s.
ExprVals == {<<0, 1>>, <<2, 1>>, <<-3, 1>>, <<8, 1>>, <<10, 1>>, <<1, 2>>}
ScalarVals == {<<10, 1>>, <<-4, 1>>, <<1, 2>>}

Stmt(op, a, b, s) == [op |-> op, a |-> a, b |-> b, s |-> s]

\* f = tanh(a * b + c); f->backward()
TanhProgs ==
    {<<Stmt("mul", 1, 2, R(0)), Stmt("add", 4, 3, R(0)), Stmt("tanh", 5, 0, R(0)),
       Stmt("backward", 6, 0, R(0))>>}

\* one derived operator on two leaves (or on one leaf twice), then backward
DerivedProgs ==
    UNION {{<<Stmt("div", x, y, R(0)), Stmt("backward", 5, 0, R(0))>>,
            <<Stmt("sub", x, y, R(0)), Stmt("backward", 6, 0, R(0))>>,
            <<Stmt("neg", x, 0, R(0)), Stmt("backward", 5, 0, R(0))>>} :
           x \in 1..3, y \in 1..3}

\* a mixed form on leaf a and a double s, the form on two nodes applied to
\* a and the leaf that wraps s (pointer 4), then backward on each result
MixedProgs ==
    UNION {{<<Stmt("add_vd", 1, 0, s), Stmt("add", 1, 4, R(0)),
              Stmt("backward", 5, 0, R(0)), Stmt("backward", 6, 0, R(0))>>,
            <<Stmt("add_dv", 0, 1, s), Stmt("add", 4, 1, R(0)),
              Stmt("backward", 5, 0, R(0)), Stmt("backward", 6, 0, R(0))>>,
            <<Stmt("mul_vd", 1, 0, s), Stmt("mul", 1, 4, R(0)),
              Stmt("backward", 5, 0, R(0)), Stmt("backward", 6, 0, R(0))>>,
            <<Stmt("mul_dv", 0, 1, s), Stmt("mul", 4, 1, R(0)),
              Stmt("backward", 5, 0, R(0)), Stmt("backward", 6, 0, R(0))>>,
            <<Stmt("div_vd", 1, 0, s), Stmt("div", 1, 4, R(0)),
              Stmt("backward", 6, 0, R(0)), Stmt("backward", 8, 0, R(0))>>,
            <<Stmt("sub_vd", 1, 0, s), Stmt("sub", 1, 4, R(0)),
              Stmt("backward", 7, 0, R(0)), Stmt("backward", 10, 0, R(0))>>,
            <<Stmt("sub_dv", 0, 1, s), Stmt("sub", 4, 1, R(0)),
              Stmt("backward", 7, 0, R(0)), Stmt("backward", 10, 0, R(0))>>} :
           s \in ScalarVals}

\* backward() called again and again on one root with no reset in between:
\* on a root whose operands are leaves, and on a root above another node
RepeatProgs ==
    UNION {{<<Stmt(op, x, y, R(0)), Stmt("backward", 4, 0, R(0)),
              Stmt("backward", 4, 0, R(0)), Stmt("backward", 4, 0, R(0))>>,
            <<Stmt("add", x, y, R(0)), Stmt(op, 4, z, R(0)),
              Stmt("backward", 5, 0, R(0)), Stmt("backward", 5, 0, R(0))>>} :
           op \in {"add", "mul"}, x \in 1..2, y \in 1..2, z \in {3, 4}}

\* backward(root), zero_grad() on the three leaves, backward(root) again: on
\* a root whose operands are leaves, on a root above another node, and on
\* that root with zero_grad() on the node in between as well
ResetProgs ==
    UNION {{<<Stmt(op, x, y, R(0)), Stmt("backward", 4, 0, R(0)),
              Stmt("zero_grad", 1, 0, R(0)), Stmt("zero_grad", 2, 0, R(0)),
              Stmt("zero_grad", 3, 0, R(0)), Stmt("backward", 4, 0, R(0))>>,
            <<Stmt("add", x, y, R(0)), Stmt(op, 4, z, R(0)),
              Stmt("backward", 5, 0, R(0)),
              Stmt("zero_grad", 1, 0, R(0)), Stmt("zero_grad", 2, 0, R(0)),
              Stmt("zero_grad", 3, 0, R(0)), Stmt("backward", 5, 0, R(0))>>,
            <<Stmt("mul", x, y, R(0)), Stmt(op, 4, z, R(0)),
              Stmt("backward", 5, 0, R(0)),
              Stmt("zero_grad", 1, 0, R(0)), Stmt("zero_grad", 2, 0, R(0)),
              Stmt("zero_grad", 3, 0, R(0)), Stmt("zero_grad", 4, 0, R(0)),
              Stmt("backward", 5, 0, R(0))>>} :
           op \in {"add", "mul"}, x \in 1..2, y \in 1..2, z \in {3, 4}}

Programs ==
    TanhProgs \cup DerivedProgs \cup MixedProgs \cup RepeatProgs \cup ResetProgs

InitExpr ==
    /\ \E va, vb, vc \in ExprVals :
          heap = make_value(make_value(make_value(<<>>,
                     va, "a", "make_value"), vb, "b", "make_value"),
                     vc, "c", "make_value")
    /\ NoBackward
    /\ prog \in Programs
    /\ ip = 1
    /\ mlp = <<>>
    /\ outs = <<>>
    /\ last = NoCall
    /\ mant = 0
    /\ handles = {}
    /\ freed = {}

\* the statement the client is at
At(op) == ip <= Len(prog) /\ prog[ip].op = op
S == prog[ip]
Step == ip' = ip + 1 /\ UNCHANGED <<prog, mlp, outs, mant, handles, freed>>

NextExpr ==
    \/ At("add") /\ Add(S.a, S.b) /\ Step
    \/ At("mul") /\ Mul(S.a, S.b) /\ Step
    \/ At("tanh") /\ Tanh(S.a) /\ Step
    \/ At("neg") /\ Neg(S.a) /\ Step
    \/ At("sub") /\ Sub(S.a, S.b) /\ Step
    \/ At("div") /\ Div(S.a, S.b) /\ Step
    \/ At("add_vd") /\ AddVD(S.a, S.s) /\ Step
    \/ At("add_dv") /\ AddDV(S.s, S.b) /\ Step
    \/ At("mul_vd") /\ MulVD(S.a, S.s) /\ Step
    \/ At("mul_dv") /\ MulDV(S.s, S.b) /\ Step
    \/ At("div_vd") /\ DivVD(S.a, S.s) /\ Step
    \/ At("sub_vd") /\ SubVD(S.a, S.s) /\ Step
    \/ At("sub_dv") /\ SubDV(S.s, S.b) /\ Step
    \/ At("backward") /\ (\E rev \in PointerOrders(heap) : Backward(S.a, rev))
          /\ Step
    \/ At("zero_grad") /\ ZeroGrad(S.a) /\ Step
    \/ BackwardFn /\ UNCHANGED <<prog, ip, mlp, outs, mant, handles, freed>>

SpecExpr == InitExpr /\ [][NextExpr]_vars

\* --------------------------------------------- a client in rounded doubles
\* The client makes the leaves a, x, y (pointers 1, 2, 3) with values that
\* fill the mantissa, and differentiates s = a * x + a * y, or s + a or
\* s * a, where a is used two or three times; double arithmetic rounds to
\* MantissaBits bits.
FloatVals == {R(1), R(2 ^ MantissaBits), R(-(2 ^ MantissaBits))}

FloatProgs ==
    {<<Stmt("mul", 1, 2, R(0)), Stmt("mul", 1, 3, R(0)),
       Stmt("add", 4, 5, R(0)), Stmt("backward", 6, 0, R(0))>>,
     <<Stmt("mul", 1, 2, R(0)), Stmt("mul", 1, 3, R(0)),
       Stmt("add", 4, 5, R(0)), Stmt("backward", 6, 0, R(0)),
       Stmt("backward", 6, 0, R(0))>>,
     <<Stmt("mul", 1, 2, R(0)), Stmt("mul", 1, 3, R(0)),
       Stmt("add", 4, 5, R(0)), Stmt("add", 6, 1, R(0)),
       Stmt("backward", 7, 0, R(0))>>,
     <<Stmt("mul", 1, 2, R(0)), Stmt("mul", 1, 3, R(0)),
       Stmt("add", 4, 5, R(0)), Stmt("mul", 6, 1, R(0)),
       Stmt("backward", 7, 0, R(0))>>}

InitFloat ==
    /\ \E va, vx, vy \in FloatVals :
          heap = make_value(make_value(make_value(<<>>,
                     va, "a", "make_value"), vx, "x", "make_value"),
                     vy, "y", "make_value")
    /\ NoBackward
    /\ prog \in FloatProgs
    /\ ip = 1
    /\ mlp = <<>>
    /\ outs = <<>>
    /\ last = NoCall
    /\ mant = MantissaBits
    /\ handles = {}
    /\ freed = {}

NextFloat ==
    \/ At("add") /\ Add(S.a, S.b) /\ Step
    \/ At("mul") /\ Mul(S.a, S.b) /\ Step
    \/ At("backward") /\ (\E rev \in PointerOrders(heap) : Backward(S.a, rev))
          /\ Step
    \/ BackwardFn /\ UNCHANGED <<prog, ip, mlp, outs, mant, handles, freed>>

SpecFloat == InitFloat /\ [][NextFloat]_vars

\* ------------------------------------------------------ a training client
\* The client builds MLP(nin, nouts) and runs a program over it: the training
\* loop that the documentation of MLP::zero_grad names (zero_grad, forward pass
\* on new inputs, backward on an output, one set_data per parameter), or the
\* MLP Zero Grad test with a second forward and backward pass before zero_grad.

\* (mutation of the client: MLP::zero_grad() is not called)
MLPZeroGrad_omitted ==
    /\ pc \notin {"sweep", "undefined"}
    /\ pc' = "idle"
    /\ last' = [NoCall EXCEPT !.op = "MLP::zero_grad"]
    /\ UNCHANGED <<heap, bvars, mlp, outs, mant, handles, freed>>

MLPZeroGrad ==
    /\ pc \notin {"sweep", "undefined"}
    /\ pc' = "idle"
    /\ heap' = MLP_zero_grad(heap, mlp.m_layers)
    /\ last' = [NoCall EXCEPT !.op = "MLP::zero_grad"]
    /\ UNCHANGED <<bvars, mlp, outs, mant, handles, freed>>

\* x = {make_value(xv[1]), ...}; outs = mlp(x)
Forward(xv) ==
    /\ pc \notin {"sweep", "undefined"}
    /\ pc' = "idle"
    /\ LET x == MakeInputs(heap, <<>>, xv)
           r == MLP_call(x.h, mlp.m_layers, x.obj)
       IN heap' = r.h /\ outs' = r.obj
    /\ last' = [NoCall EXCEPT !.op = "MLP::operator()"]
    /\ UNCHANGED <<bvars, mlp, mant, handles, freed>>

\* the pointer orders of the m_prev sets of root's graph
PointerOrdersFrom(h, root) ==
    {rev \in SUBSET {u \in Closure(h, {root}, Len(h)) :
                        Cardinality(h[u].prev) = 2} :
        Acyclic(1..Len(h), Before(h, rev))}

\* the optimizer: a step of LearningRate against the sign of the gradient
Sign(x) == IF x[1] > 0 THEN R(1) ELSE IF x[1] < 0 THEN R(-1) ELSE R(0)
Optimizer(h, p) == RSub(h[p].data, RMul(LearningRate, Sign(h[p].grad)))

\* the training loop, MaxIters times, over np parameters
TrainProg(np) ==
    [i \in 1..(MaxIters * (3 + np)) |->
        LET j == ((i - 1) % (3 + np)) + 1
        IN IF j = 1 THEN Stmt("mlp_zero_grad", 0, 0, R(0))
           ELSE IF j = 2 THEN Stmt("forward", 0, 0, R(0))
           ELSE IF j = 3 THEN Stmt("backward_out", 0, 0, R(0))
           ELSE Stmt("update", j - 3, 0, R(0))]

AccumulateProg ==
    <<Stmt("forward", 0, 0, R(0)), Stmt("backward_out", 0, 0, R(0)),
      Stmt("forward", 0, 0, R(0)), Stmt("backward_out", 0, 0, R(0)),
      Stmt("mlp_zero_grad", 0, 0, R(0))>>

InitMLP ==
    /\ \E shape \in Shapes :
          \E ws \in [1..NumWeights(shape[1], shape[2]) -> WeightVals] :
              LET r == MLP_ctor(<<>>, <<>>, shape[1], shape[2], ws)
              IN /\ heap = r.h
                 /\ mlp = [m_layers |-> r.obj, nin |-> shape[1],
                           nouts |-> shape[2]]
                 /\ prog \in {TrainProg(Len(MLP_parameters(r.obj))), AccumulateProg}
    /\ NoBackward
    /\ ip = 1
    /\ outs = <<>>
    /\ last = NoCall
    /\ mant = 0
    /\ handles = {}
    /\ freed = {}

NextMLP ==
    \/ At("mlp_zero_grad") /\ MLPZeroGrad /\ ip' = ip + 1 /\ UNCHANGED prog
    \/ At("forward") /\ (\E xv \in [1..mlp.nin -> InputVals] : Forward(xv))
          /\ ip' = ip + 1 /\ UNCHANGED prog
    \/ At("backward_out")
          /\ (\E k \in 1..Len(outs) :
                 \E rev \in PointerOrdersFrom(heap, outs[k]) :
                     Backward(outs[k], rev))
          /\ Step
    \/ At("update")
          /\ LET p == MLP_parameters(mlp.m_layers)[S.a]
             IN SetData(p, Optimizer(heap, p))
          /\ Step
    \/ BackwardFn /\ UNCHANGED <<prog, ip, mlp, outs, mant, handles, freed>>

SpecMLP == InitMLP /\ [][NextMLP]_vars

\* ------------------------------------------- a client that drops handles
\* ValuePtr is std::shared_ptr<Value>. A node is owned by the client's
\* handles, by the m_prev set of every live node that has it as a child and
\* by the ValuePtr copies that the m_backward_fn of every live node captured
\* by value.

\* the copies of p in the captures of a closure: [lhs, rhs, out] of operator+
\* and operator*, [v, t, out], [v, e, out] and [base, exp_val, out] of tanh,
\* exp and pow, none in the [] of a leaf
Captures(fn, p) ==
    (IF fn.lhs = p THEN 1 ELSE 0) + (IF fn.rhs = p THEN 1 ELSE 0)
    + (IF fn.out = p THEN 1 ELSE 0)

RECURSIVE CapturedBy(_, _, _)
CapturedBy(h, qs, p) ==
    IF qs = {} THEN 0
    ELSE LET q == CHOOSE x \in qs : TRUE
         IN Captures(h[q].fn, p) + CapturedBy(h, qs \ {q}, p)

\* std::shared_ptr::use_count() of node p when the client holds the handles
\* hs and the nodes fr have been destroyed
use_count(h, hs, fr, p) ==
    IF p \in fr THEN 0
    ELSE LET live == (1..Len(h)) \ fr
         IN (IF p \in hs THEN 1 ELSE 0)
            + Cardinality({q \in live : p \in h[q].prev})
            + CapturedBy(h, live, p)

\* ~Value() of every node whose count is 0 destroys its m_prev and its
\* m_backward_fn, which releases what they own, and so on
RECURSIVE Release(_, _, _)
Release(h, hs, fr) ==
    LET dead == {p \in (1..Len(h)) \ fr : use_count(h, hs, fr, p) = 0}
    IN IF dead = {} THEN fr ELSE Release(h, hs, fr \cup dead)

\* auto p = ...: the client keeps the ValuePtr the call returned
Kept ==
    /\ handles' = handles \cup {Len(heap) + 1}
    /\ freed' = freed
    /\ UNCHANGED <<prog, ip, mlp, outs, mant>>

\* the client's ValuePtr to p goes out of scope or is reset()
Drop(p) ==
    /\ Call
    /\ p \in handles
    /\ handles' = handles \ {p}
    /\ freed' = Release(heap, handles \ {p}, freed)
    /\ UNCHANGED <<heap, bvars, prog, ip, mlp, outs, mant>>

\* the client builds expressions from the nodes it holds and drops handles in
\* any order
NextOwn ==
    \/ \E d \in LeafVals, l \in Labels : Room(1) /\ MakeValue(d, l) /\ Kept
    \/ \E lhs, rhs \in handles : Room(1) /\ Add(lhs, rhs) /\ Kept
    \/ \E lhs, rhs \in handles : Room(1) /\ Mul(lhs, rhs) /\ Kept
    \/ \E base \in handles, exp_val \in ExpVals :
          Room(1) /\ Pow(base, exp_val) /\ Kept
    \/ \E v \in handles : Room(1) /\ Tanh(v) /\ Kept
    \/ \E v \in handles : Room(1) /\ Exp(v) /\ Kept
    \/ \E p \in handles : Drop(p)

SpecOwn == Init /\ [][NextOwn]_vars

\* ============================================================ properties
\* Equality, sum, product and integral power of doubles, stated on the
\* numerators and denominators.
Eq(x, y) == IsFinite(x) /\ IsFinite(y) /\ x[1] * y[2] = y[1] * x[2]
IsSum(z, x, y) == Eq(z, <<x[1] * y[2] + y[1] * x[2], x[2] * y[2]>>)
IsProd(z, x, y) == Eq(z, <<x[1] * y[1], x[2] * y[2]>>)
PowRef(x, k) ==
    IF k >= 0 THEN Norm(x[1] ^ k, x[2] ^ k) ELSE Norm(x[2] ^ (-k), x[1] ^ (-k))

IsLeaf(p) == heap[p].op = "" /\ heap[p].args = <<>>

\* the nodes reachable from root through operand links
RECURSIVE Reach(_, _)
Reach(h, root) ==
    {root} \cup UNION {Reach(h, h[root].args[i]) : i \in 1..Len(h[root].args)}

\* backward(root) has just returned
Returned(root) == pc = "returned" /\ this = root

\* every node of root's graph had gradient 0 when that backward() began
ZeroBefore(root) == \A v \in Reach(heap, root) : pre[v] = R(0)

\* the partial derivative of u's value with respect to its operand v: the
\* sum over the operand positions of u that hold v
Local(h, u, v) ==
    LET a == h[u].args
        Sel(i, d) == IF i <= Len(a) /\ a[i] = v THEN d ELSE R(0)
    IN CASE h[u].op = "+" -> RAdd(Sel(1, R(1)), Sel(2, R(1)))
         [] h[u].op = "*" ->
              RAdd(Sel(1, IF Len(a) = 2 THEN h[a[2]].data ELSE R(0)),
                   Sel(2, IF Len(a) = 2 THEN h[a[1]].data ELSE R(0)))
         [] h[u].op = "pow" ->
              Sel(1, RMul(R(h[u].expo), PowRef(h[v].data, h[u].expo - 1)))
         [] h[u].op = "tanh" -> Sel(1, RSub(R(1), RMul(h[u].data, h[u].data)))
         [] h[u].op = "exp" -> Sel(1, h[u].data)
         [] OTHER -> R(0)

\* d root / d v: the sum over the operand paths from root to v of the
\* product of the local partial derivatives (operands are older than the
\* nodes that use them, so every consumer of v lies in v+1 .. root)
RECURSIVE Deriv(_, _, _)
RECURSIVE DerivSum(_, _, _, _)
Deriv(h, root, v) ==
    IF v = root THEN R(1)
    ELSE IF v > root THEN R(0)
    ELSE DerivSum(h, root, v, v + 1)
DerivSum(h, root, v, u) ==
    IF u > root THEN R(0)
    ELSE IF \A i \in 1..Len(h[u].args) : h[u].args[i] # v
         THEN DerivSum(h, root, v, u + 1)
    ELSE RAdd(RMul(Deriv(h, root, u), Local(h, u, v)),
              DerivSum(h, root, v, u + 1))

OnlyAddMulPow(root) ==
    \A v \in Reach(heap, root) : heap[v].op \in {"", "+", "*", "pow"}

C2_Add ==
    \A c \in Ptrs :
        LET a == heap[c].args[1]
            b == heap[c].args[2]
        IN (heap[c].op = "+" /\ a # b /\ IsLeaf(a) /\ IsLeaf(b)) =>
              /\ IsSum(heap[c].data, heap[a].data, heap[b].data)
              /\ (Returned(c) /\ pre[a] = R(0) /\ pre[b] = R(0)) =>
                    /\ Eq(heap[a].grad, R(1))
                    /\ Eq(heap[b].grad, R(1))
                    /\ Eq(heap[c].grad, R(1))

C2_Witness ==
    \E c \in Ptrs :
        LET a == heap[c].args[1]
            b == heap[c].args[2]
        IN /\ heap[c].op = "+" /\ a # b /\ IsLeaf(a) /\ IsLeaf(b)
           /\ Returned(c) /\ pre[a] = R(0) /\ pre[b] = R(0)
           /\ heap[a].grad = R(1) /\ heap[b].grad = R(1)
           /\ heap[a].data # heap[b].data

\* C3: for distinct leaves a, b and c = a * b: c.value = a.value * b.value,
\* and after backward(c) from gradients 0, a.gradient = b.value and
\* b.gradient = a.value.
C3_Mul ==
    \A c \in Ptrs :
        LET a == heap[c].args[1]
            b == heap[c].args[2]
        IN (heap[c].op = "*" /\ a # b /\ IsLeaf(a) /\ IsLeaf(b)) =>
              /\ IsProd(heap[c].data, heap[a].data, heap[b].data)
              /\ (Returned(c) /\ pre[a] = R(0) /\ pre[b] = R(0)) =>
                    /\ Eq(heap[a].grad, heap[b].data)
                    /\ Eq(heap[b].grad, heap[a].data)

C3_Witness ==
    \E c \in Ptrs :
        LET a == heap[c].args[1]
            b == heap[c].args[2]
        IN /\ heap[c].op = "*" /\ a # b /\ IsLeaf(a) /\ IsLeaf(b)
           /\ Returned(c) /\ pre[a] = R(0) /\ pre[b] = R(0)
           /\ heap[a].data # heap[b].data
           /\ heap[a].grad = heap[b].data /\ heap[b].grad = heap[a].data

\* the sum, over the nodes u of from .. root that root reaches, of
\* u.gradient times the partial derivative of u with respect to v, every
\* operand position of u that holds v counted
RECURSIVE UseSum(_, _, _, _)
UseSum(h, root, v, from) ==
    IF from > root THEN R(0)
    ELSE RAdd(IF from \in Reach(h, root)
              THEN RMul(h[from].grad, Local(h, from, v)) ELSE R(0),
              UseSum(h, root, v, from + 1))

\* the number of operand positions, over the nodes root reaches, that hold v
Uses(h, root, v) ==
    Cardinality({<<u, i>> \in Reach(h, root) \X {1, 2} :
                    i <= Len(h[u].args) /\ h[u].args[i] = v})

\* C4: shared operands accumulate.  For a leaf a and b = a * a, whose operand
\* set holds a once, backward(b) from gradient 0 leaves a.gradient =
\* 2 * a.value; and after any backward(root) from gradients 0 every node
\* root reaches holds the sum of the contributions of all its uses.
C4_SharedOperandsAccumulate ==
    /\ \A b \in Ptrs :
          LET a == heap[b].args[1]
          IN (heap[b].op = "*" /\ heap[b].args = <<a, a>> /\ IsLeaf(a)) =>
                /\ heap[b].prev = {a}
                /\ (Returned(b) /\ pre[a] = R(0)) =>
                      Eq(heap[a].grad, RMul(R(2), heap[a].data))
    /\ \A root \in Ptrs :
          (Returned(root) /\ ZeroBefore(root)) =>
              \A v \in Reach(heap, root) \ {root} :
                  Eq(heap[v].grad, UseSum(heap, root, v, v + 1))

\* b = a * a differentiated, and a node with two different consumers
C4_Witness ==
    /\ \E b \in Ptrs :
          LET a == heap[b].args[1]
          IN /\ heap[b].op = "*" /\ heap[b].args = <<a, a>> /\ IsLeaf(a)
             /\ Cardinality(heap[b].prev) = 1
             /\ Returned(b) /\ pre[a] = R(0)
             /\ heap[a].grad = RMul(R(2), heap[a].data)
             /\ heap[a].grad # R(0)
             /\ \E u \in Ptrs \ {b} : a \in Reach(heap, u) \ {u}

C4_WitnessTwoConsumers ==
    \E root \in Ptrs :
        /\ Returned(root) /\ ZeroBefore(root)
        /\ \E v \in Reach(heap, root) \ {root} :
              /\ Uses(heap, root, v) >= 2
              /\ Cardinality({u \in Reach(heap, root) :
                                 v \in heap[u].prev}) = 2
              /\ ~Eq(heap[v].grad, R(0))

\* C8: a pow node has the value base^n and the single operand base; its
\* backward procedure adds n * base^(n-1) * out.gradient to base.gradient and
\* changes no other gradient; the exponent is a number held by the closure,
\* the same in every later state.
C8_PowStep ==
    /\ \A out \in 1..Len(heap') :
          heap'[out].op = "pow" =>
              LET base == heap'[out].args[1]
              IN /\ heap'[out].prev = {base}
                 /\ heap'[out].args = <<base>>
                 /\ heap'[out].fn.exp_val = heap'[out].expo
                 /\ Eq(heap'[out].data,
                       PowRef(heap'[base].data, heap'[out].expo))
    /\ \A out \in Ptrs :
          heap[out].op = "pow" =>
              LET base == heap[out].args[1]
                  n == heap[out].expo
              IN /\ heap'[out].fn.exp_val = heap[out].fn.exp_val
                 /\ (pc = "sweep" /\ topo[idx] = out) =>
                       /\ Eq(heap'[base].grad,
                             RAdd(heap[base].grad,
                                  RMul(RMul(R(n), PowRef(heap[base].data, n - 1)),
                                       heap[out].grad)))
                       /\ \A p \in Ptrs \ {base} : heap'[p].grad = heap[p].grad

C8_Pow == [][C8_PowStep]_vars

\* the backward procedure of a pow node with exponent -1 has run and has
\* given its base a gradient
C8_Witness ==
    \E out \in Ptrs :
        /\ heap[out].op = "pow" /\ heap[out].expo = -1
        /\ passes = 1 /\ ZeroBefore(this)
        /\ \E i \in 1..Len(topo) : topo[i] = out /\ idx > i
        /\ ~Eq(heap[heap[out].args[1]].grad, R(0))

\* C5: for leaves a, b, c, e = a * b, d = e + c and f = tanh(d), all with
\* gradient 0: e.value = a.value * b.value, d.value = e.value + c.value, and
\* after backward(f): d.gradient = 1 - f.value^2, e.gradient = c.gradient =
\* d.gradient, a.gradient = b.value * e.gradient, b.gradient = a.value *
\* e.gradient.
C5_TanhExpr ==
    \A f \in Ptrs :
        LET d == heap[f].args[1]
            e == heap[d].args[1]
            c == heap[d].args[2]
            a == heap[e].args[1]
            b == heap[e].args[2]
        IN (/\ heap[f].op = "tanh" /\ heap[d].op = "+" /\ heap[e].op = "*"
            /\ IsLeaf(a) /\ IsLeaf(b) /\ IsLeaf(c)
            /\ Cardinality({a, b, c}) = 3) =>
              /\ IsProd(heap[e].data, heap[a].data, heap[b].data)
              /\ IsSum(heap[d].data, heap[e].data, heap[c].data)
              /\ (Returned(f) /\ ZeroBefore(f)) =>
                    /\ IsSum(R(1), heap[d].grad,
                             <<heap[f].data[1] * heap[f].data[1],
                               heap[f].data[2] * heap[f].data[2]>>)
                    /\ Eq(heap[e].grad, heap[d].grad)
                    /\ Eq(heap[c].grad, heap[d].grad)
                    /\ IsProd(heap[a].grad, heap[b].data, heap[e].grad)
                    /\ IsProd(heap[b].grad, heap[a].data, heap[e].grad)

\* a = 2, b = -3, c = 10 as in the specification's scenario
C5_Witness ==
    /\ Len(heap) = 6 /\ Returned(6) /\ ZeroBefore(6)
    /\ heap[6].op = "tanh" /\ heap[6].args = <<5>>
    /\ heap[5].op = "+" /\ heap[5].args = <<4, 3>>
    /\ heap[4].op = "*" /\ heap[4].args = <<1, 2>>
    /\ heap[1].data = R(2) /\ heap[2].data = R(-3) /\ heap[3].data = R(10)
    /\ heap[4].data = R(-6) /\ heap[5].data = R(4)
    /\ ~Eq(heap[5].grad, R(0))
    /\ heap[1].grad = RMul(R(-3), heap[5].grad)
    /\ heap[2].grad = RMul(R(2), heap[5].grad)

C7_Sub ==
    \A f \in Ptrs :
        LET d == heap[f].args[1]
            m == heap[f].args[2]
            e == heap[m].args[1]
        IN (heap[f].by = "sub" /\ d # e /\ IsLeaf(d) /\ IsLeaf(e)) =>
              /\ heap[f].op = "+" /\ heap[m].op = "*"
              /\ heap[heap[m].args[2]].data = R(-1)
              /\ IsSum(heap[d].data, heap[f].data, heap[e].data)
              /\ (Returned(f) /\ ZeroBefore(f)) =>
                    /\ Eq(heap[d].grad, R(1))
                    /\ Eq(heap[e].grad, R(-1))

C7_Witness ==
    \E f \in Ptrs :
        LET d == heap[f].args[1]
            e == heap[heap[f].args[2]].args[1]
        IN /\ heap[f].by = "sub" /\ d # e /\ IsLeaf(d) /\ IsLeaf(e)
           /\ Returned(f) /\ ZeroBefore(f)
           /\ heap[d].data = R(10) /\ heap[e].data = R(8)
           /\ heap[f].data = R(2)
           /\ heap[d].grad = R(1) /\ heap[e].grad = R(-1)

\* C9: for a leaf j and a scalar s: k = j + s has k.value = j.value + s and
\* backward(k) from gradient 0 leaves j.gradient = 1; n = s * j has n.value =
\* s * j.value and backward(n) from gradient 0 leaves j.gradient = s.
C9_MixedScalar ==
    \A k \in Ptrs :
        /\ heap[k].by = "add_vd" =>
              LET j == heap[k].args[1]
              IN IsLeaf(j) =>
                    /\ IsSum(heap[k].data, heap[j].data, prog[1].s)
                    /\ (Returned(k) /\ ZeroBefore(k)) => Eq(heap[j].grad, R(1))
        /\ heap[k].by = "mul_dv" =>
              LET j == heap[k].args[2]
              IN IsLeaf(j) =>
                    /\ IsProd(heap[k].data, prog[1].s, heap[j].data)
                    /\ (Returned(k) /\ ZeroBefore(k)) =>
                          Eq(heap[j].grad, prog[1].s)

C9_Witness ==
    \E k \in Ptrs :
        /\ heap[k].by = "add_vd" /\ IsLeaf(heap[k].args[1])
        /\ Returned(k) /\ ZeroBefore(k)
        /\ heap[heap[k].args[1]].data = R(2) /\ prog[1].s = R(10)
        /\ heap[k].data = R(12)
        /\ heap[heap[k].args[1]].grad = R(1)

C9_WitnessMul ==
    \E n \in Ptrs :
        /\ heap[n].by = "mul_dv" /\ IsLeaf(heap[n].args[2])
        /\ Returned(n) /\ ZeroBefore(n)
        /\ heap[heap[n].args[2]].data = R(-3) /\ prog[1].s = R(-4)
        /\ heap[n].data = R(12)
        /\ heap[heap[n].args[2]].grad = R(-4)

MixedForms ==
    {"add_vd", "add_dv", "mul_vd", "mul_dv", "sub_vd", "sub_dv", "div_vd"}

\* the mixed forms value.cpp defines
DefinedMixedForms == {"add_vd", "add_dv", "mul_vd", "mul_dv", "div_vd"}

\* The program calls the mixed form on leaf 1, then the two-node form on
\* leaf 1 and the wrapping leaf 4, then backward on each result; the second
\* pass adds its gradient to what the first left on leaf 1.
MixedAsWrapped(forms) ==
    (prog[1].op \in forms) =>
        LET x == prog[3].a
            y == prog[4].a
        IN /\ ip >= 2 =>
                 /\ Len(heap) >= 4
                 /\ IsLeaf(4) /\ heap[4].prev = {} /\ heap[4].label = ""
                 /\ heap[4].fn = NoFn /\ heap[4].by = "scalar"
                 /\ heap[4].data = prog[1].s
                 /\ passes = 0 => heap[4].grad = R(0)
                 /\ heap[Len(heap)].by = IF ip = 2 THEN prog[1].op
                                         ELSE prog[2].op
           /\ ip >= 3 =>
                 /\ heap[x].by = prog[1].op /\ heap[y].by = prog[2].op
                 /\ heap[x].op = heap[y].op
                 /\ Eq(heap[x].data, heap[y].data)
           /\ (ip = 4 /\ pc = "returned") => (this = x /\ ZeroBefore(x))
           /\ (ip = 5 /\ pc = "returned") =>
                 /\ this = y
                 /\ IsSum(heap[1].grad, pre[1], pre[1])

\* C10: every mixed form the interface declares (add, multiply, subtract,
\* divide with a double) wraps the double in a new unlabeled leaf with no
\* operands and gradient 0, and gives the value, and on the node operand the
\* gradient, that the form for two nodes gives when applied to that leaf.
C10_MixedAsWrapped == MixedAsWrapped(MixedForms)

\* the same of the five forms that have a definition: add and multiply with
\* the double on either side, divide by a double
C10_DefinedMixedAsWrapped == MixedAsWrapped(DefinedMixedForms)

C10_Witness ==
    /\ prog[1].op = "div_vd" /\ prog[1].s = <<1, 2>>
    /\ ip = 5 /\ pc = "returned"
    /\ heap[1].data = R(8) /\ heap[6].data = R(16) /\ heap[8].data = R(16)
    /\ pre[1] = R(2) /\ heap[1].grad = R(4)

\* a client that called a subtract mixed form: no node was made
C10_UndefinedReference ==
    /\ prog[1].op \in {"sub_vd", "sub_dv"}
    /\ ip = 2 /\ pc = "undefined" /\ Len(heap) = 3

\* ------------------------------------------------ Value::backward, the sweep
\* C11: during one backward(root) call the m_backward_fn of every node that
\* root reaches through operand links is invoked exactly once and that of no
\* other node is invoked, also when a node is reached along several paths.
C11_EachReachableOnce ==
    /\ pc = "sweep" =>
          \A v \in DOMAIN calls :
              calls[v] <= (IF v \in Reach(heap, this) THEN 1 ELSE 0)
    /\ pc = "returned" =>
          \A v \in Ptrs :
              calls[v] = (IF v \in Reach(heap, this) THEN 1 ELSE 0)

\* backward(root) has returned where root uses a node directly and through
\* another operand
C11_Witness ==
    /\ pc = "returned" /\ Len(heap[this].args) = 2
    /\ \E m, v \in Ptrs :
          /\ m # v /\ m # this
          /\ {m, v} = heap[this].prev
          /\ v \in heap[m].prev
          /\ calls[v] = 1 /\ calls[m] = 1 /\ calls[this] = 1

\* backward(root) has returned and a node that root does not reach was left out
C11_WitnessNotReached ==
    /\ pc = "returned"
    /\ \E v \in Ptrs : v \notin Reach(heap, this) /\ calls[v] = 0

\* the nodes root reaches that have v as an operand
Consumers(h, root, v) == {w \in Reach(h, root) : v \in h[w].prev}

\* C12: during one backward(root) call a node's m_backward_fn runs only after
\* that of every node root reaches that uses it as an operand, so its
\* gradient holds every consumer's contribution when it is read (no later
\* step of the call changes it); root's m_backward_fn runs first.
C12_Step ==
    pc = "sweep" =>
        LET v == topo[idx]
        IN /\ \A w \in Consumers(heap, this, v) : calls[w] = 1
           /\ (\A w \in DOMAIN calls : calls[w] = 0) => v = this
           /\ \A w \in Ptrs :
                 (w = v \/ calls[w] = 1) => heap'[w].grad = heap[w].grad

C12_ConsumersFirst == [][C12_Step]_vars

\* the loop is at a node with two consumers, both already run, which between
\* them gave it a gradient other than 0 and 1
C12_Witness ==
    /\ pc = "sweep"
    /\ Cardinality(Consumers(heap, this, topo[idx])) = 2
    /\ \A w \in Consumers(heap, this, topo[idx]) : calls[w] = 1
    /\ pre[topo[idx]] = R(0)
    /\ ~Eq(heap[topo[idx]].grad, R(0)) /\ ~Eq(heap[topo[idx]].grad, R(1))

\* ----------------------------------------------------- successive passes
\* after the n-th backward(root) of a program that only repeats it, every
\* leaf of root's graph holds n times d root / d leaf, which is what one pass
\* from all-zero gradients gives it
NTimesOnePass ==
    \A u \in Reach(heap, this) :
        IsLeaf(u) =>
            Eq(heap[u].grad, RMul(R(passes), Deriv(heap, this, u)))

OperandsAreLeaves(root) ==
    \A i \in 1..Len(heap[root].args) : IsLeaf(heap[root].args[i])

\* C13 as stated: when backward(root) is called n times on the same graph
\* with no gradient reset in between, every leaf root reaches ends with n
\* times the gradient one pass from all-zero gradients gives it.
C13_PassesSum ==
    (prog \in RepeatProgs /\ pc = "returned") => NTimesOnePass

\* C13 amended: when every operand of root is a leaf, every operand of root
\* ends with n times the gradient one pass from all-zero gradients gives it.
\* (A node between root and a leaf keeps its gradient from pass to pass as
\* well, and hands the leaf more each time.)
C13_PassesSumOverLeaves ==
    (prog \in RepeatProgs /\ pc = "returned" /\ OperandsAreLeaves(this)) =>
        \A i \in 1..Len(heap[this].args) :
            LET u == heap[this].args[i]
            IN Eq(heap[u].grad, RMul(R(passes), Deriv(heap, this, u)))

\* the third backward() on a product of two leaves has returned
C13_Witness ==
    /\ prog \in RepeatProgs /\ pc = "returned" /\ passes = 3
    /\ heap[this].op = "*" /\ heap[this].args = <<1, 2>>
    /\ heap[1].data = R(2) /\ heap[2].data = R(-3)
    /\ heap[1].grad = R(-9) /\ heap[2].grad = R(6)

\* a = 2, b = a + a, c = b + b: the second backward(c) leaves a.gradient 12,
\* not 2 * 4
C13_IntermediateCarries ==
    /\ prog \in RepeatProgs /\ pc = "returned" /\ passes = 2
    /\ Len(heap) = 5
    /\ heap[4].args = <<1, 1>> /\ heap[5].args = <<4, 4>>
    /\ heap[4].op = "+" /\ heap[5].op = "+"
    /\ pre[1] = R(4) /\ heap[1].grad = R(12)

\* ------------------------------------------------- backward() on a sub-root
\* C18: backward(root) on a node that is an operand of larger expressions
\* treats root as the loss: root's gradient becomes 1 whatever it was, only
\* gradients of nodes root reaches can change; the gradient of every other
\* node (root's consumers included), every value and the operand links stay.
\* Stated of every step of the call, the one that begins it included.
C18_Step ==
    (pc = "sweep" \/ pc' = "sweep") =>
        LET root == this'
        IN /\ Len(heap') = Len(heap)
           /\ heap'[root].grad = R(1)
           /\ \A u \in Ptrs :
                 /\ u \notin Reach(heap, root) => heap'[u].grad = heap[u].grad
                 /\ heap'[u].data = heap[u].data
                 /\ heap'[u].prev = heap[u].prev
                 /\ heap'[u].args = heap[u].args
                 /\ heap'[u].op = heap[u].op

C18_SubRootFrame == [][C18_Step]_vars

\* backward(root) has returned; root had a gradient other than 0 and 1 from
\* an earlier pass on a consumer, which keeps its own non-zero gradient
C18_Witness ==
    /\ pc = "returned" /\ passes = 2
    /\ ~Eq(pre[this], R(0)) /\ ~Eq(pre[this], R(1))
    /\ heap[this].grad = R(1)
    /\ \E c \in Ptrs :
          /\ this \in heap[c].prev /\ c \notin Reach(heap, this)
          /\ heap[c].grad = pre[c] /\ ~Eq(heap[c].grad, R(0))
    /\ \E u \in Reach(heap, this) \ {this} : heap[u].grad # pre[u]

\* ------------------------------------------------------ the Value members
\* C16: zero_grad() on a node, any number of times in a row and after any
\* add_to_grad, set_grad and backward calls, leaves its gradient 0 and
\* changes neither its value nor any other node.  Stated of every step that
\* is a call of zero_grad.
C16_Step ==
    \A v \in Ptrs :
        (last'.op = "zero_grad" /\ last'.v = v) =>
            /\ Len(heap') = Len(heap)
            /\ heap'[v].grad = R(0)
            /\ heap'[v].data = heap[v].data
            /\ heap'[v] = [heap[v] EXCEPT !.grad = R(0)]
            /\ \A u \in Ptrs \ {v} : heap'[u] = heap[u]

C16_ZeroGradIdempotent == [][C16_Step]_vars

\* zero_grad() has been called twice in a row on a node that a backward pass
\* had given a gradient; its value and the other node's gradient are there
C16_Witness ==
    /\ last.op = "zero_grad" /\ last.n = 2 /\ passes = 1
    /\ ~Eq(last.from, R(0))
    /\ heap[last.v].grad = R(0) /\ heap[last.v].data = R(-3)
    /\ \E u \in Ptrs \ {last.v} : ~Eq(heap[u].grad, R(0))

\* the step changes the gradient of the node at u
GradChanges(u) == heap'[u].grad # heap[u].grad

\* every node the step makes has gradient 0
BornZero == \A u \in (Len(heap) + 1)..Len(heap') : heap'[u].grad = R(0)

\* the step is an m_backward_fn call of backward()'s loop, which adds to
\* gradients through add_to_grad
BackwardProcedure == pc = "sweep"

\* the step is the call of member op on u
Calls(op, u) == last'.op = op /\ last'.v = u /\ last' # last

\* C19 as stated: a node's gradient is 0 at construction and thereafter
\* changes only by an additive increment (add_to_grad or a backward
\* procedure) or by an explicit reset to 0; no operation of the public
\* interface assigns it any other value.
C19_Step ==
    /\ BornZero
    /\ \A u \in Ptrs :
          GradChanges(u) =>
              \/ BackwardProcedure
              \/ Calls("add_to_grad", u)
              \/ heap'[u].grad = R(0)

C19_OnlyIncrementOrReset == [][C19_Step]_vars

\* C19 amended: a node that make_value or an operator makes has gradient 0,
\* and thereafter its gradient changes only by an additive increment
\* (add_to_grad or a backward procedure), by zero_grad's reset to 0, by
\* set_grad's assignment of its argument, by backward()'s assignment of 1 to
\* the node it is called on, or by assignment of a whole Value to the node.
C19_AmendedStep ==
    /\ BornZero
    /\ \A u \in Ptrs :
          GradChanges(u) =>
              \/ BackwardProcedure
              \/ Calls("add_to_grad", u)
              \/ Calls("zero_grad", u) /\ heap'[u].grad = R(0)
              \/ Calls("set_grad", u) /\ heap'[u].grad \in GradVals
              \/ Calls("operator=", u)
              \/ pc # "sweep" /\ pc' = "sweep" /\ this' = u
                    /\ heap'[u].grad = R(1)

C19_GradientWrites == [][C19_AmendedStep]_vars

\* set_grad has assigned 1/2 to a node that a backward pass had given another
\* gradient, and the root of that pass holds the 1 backward() assigned
C19_Witness ==
    /\ last.op = "set_grad" /\ passes = 1 /\ this # last.v
    /\ ~Eq(last.from, R(0))
    /\ heap[last.v].grad = <<1, 2>>
    /\ heap[this].grad = R(1)

\* C20: after any sequence of operations of the public interface (make_value,
\* the operators, the mutators, Value's copy and move assignment) the operand
\* relation is acyclic: every operand of a node was constructed before the
\* node, and no node is reachable from itself through operand links.
C20_Acyclic ==
    \A v \in Ptrs :
        /\ heap[v].prev \subseteq 1..(v - 1)
        /\ v \notin Closure(heap, heap[v].prev, Len(heap))

\* b = a + a, then *a = *b: a is its own operand, and its m_backward_fn is
\* b's closure
C20_SelfOperand ==
    \E a, b \in Ptrs :
        /\ a < b /\ heap[b].args = <<a, a>>
        /\ last.op = "operator=" /\ last.v = a
        /\ heap[a].prev = {a} /\ heap[a].fn.out = b

\* ---------------------------------------------------- Neuron, Layer and MLP
\* the parameter count of MLP(size, nouts): the sum of n_i * (n_(i-1) + 1)
RECURSIVE ParameterCount(_, _)
ParameterCount(size, nouts) ==
    IF nouts = <<>> THEN 0
    ELSE Head(nouts) * (size + 1) + ParameterCount(Head(nouts), Tail(nouts))

\* the nin of layer l of the MLP
LayerNin(l) == IF l = 1 THEN mlp.nin ELSE mlp.nouts[l - 1]

Range(s) == {s[i] : i \in 1..Len(s)}

\* C17: Neuron(nin).parameters() returns nin + 1 nodes, the nin weights and
\* then the bias; Layer(nin, nout).parameters() returns nout * (nin + 1) nodes;
\* MLP(nin, [n1..nk]).parameters() returns the sum over the layers i of
\* n_i * (n_(i-1) + 1) nodes, n_0 = nin; a forward pass returns as many nodes
\* as the last layer has neurons; forward passes do not change the count.
C17_ParameterCounts ==
    /\ \A l \in 1..Len(mlp.m_layers) :
          LET layer == mlp.m_layers[l]
              nin == LayerNin(l)
          IN /\ Len(Layer_parameters(layer)) = mlp.nouts[l] * (nin + 1)
             /\ \A j \in 1..Len(layer) :
                   LET ps == Neuron_parameters(layer[j])
                   IN /\ Len(ps) = nin + 1
                      /\ Cardinality(Range(ps)) = nin + 1
                      /\ SubSeq(ps, 1, nin) = layer[j].w
                      /\ ps[nin + 1] = layer[j].b
    /\ Len(MLP_parameters(mlp.m_layers)) = ParameterCount(mlp.nin, mlp.nouts)
    /\ outs # <<>> => Len(outs) = mlp.nouts[Len(mlp.nouts)]

\* the second forward pass through MLP(1, [1, 1]) has returned one node, and
\* the MLP has four parameters among the heap's nodes
C17_Witness ==
    /\ last.op = "MLP::operator()"
    /\ passes = 1
    /\ mlp.nin = 1 /\ mlp.nouts = <<1, 1>>
    /\ Len(outs) = 1
    /\ Len(MLP_parameters(mlp.m_layers)) = 4
    /\ Len(heap) = 4 + 2 * 7

\* the parameters of the MLP, read off its neurons' members
Members ==
    UNION {UNION {Range(mlp.m_layers[l][j].w) \cup {mlp.m_layers[l][j].b} :
                     j \in 1..Len(mlp.m_layers[l])} :
              l \in 1..Len(mlp.m_layers)}

\* the nodes the forward passes made, and their operands
ForwardNodes == {u \in Ptrs : heap[u].by = "forward"}
ForwardOperands == UNION {heap[u].prev : u \in ForwardNodes}

C15_Step ==
    (At("mlp_zero_grad") /\ last'.op = "MLP::zero_grad") =>
        LET ps == Range(MLP_parameters(mlp.m_layers))
        IN /\ \A p \in ps : heap'[p].grad = R(0)
           /\ ps = Members
           /\ ForwardNodes # {} => ps \subseteq ForwardOperands
           /\ \A u \in ForwardNodes :
                 /\ heap[u].op = "*" => heap[u].args[1] \in ps
                 /\ heap[u].op = "+" =>
                       heap[u].args[1] \in ps \cup ForwardNodes

\* C15: after any sequence of forward passes and backward() calls on the
\* outputs, MLP::zero_grad() leaves the gradient of every node that
\* MLP::parameters() returns at 0, and these nodes are the weights and biases
\* that the forward passes took as operands.
C15_ZeroGradOfParameters == [][C15_Step]_vars

\* MLP::zero_grad() has returned after two forward and backward passes with
\* no reset between them: the parameters' gradients are 0, the gradients of
\* the nodes of the passes are not
C15_Witness ==
    /\ last.op = "MLP::zero_grad"
    /\ passes = 2
    /\ prog = AccumulateProg
    /\ \A p \in Members : heap[p].grad = R(0)
    /\ Members \subseteq ForwardOperands
    /\ \E u \in ForwardNodes : heap[u].grad # R(0)

\* the client runs the training loop
Training == prog[1].op = "mlp_zero_grad"

\* C14: in every iteration of the training loop (MLP::zero_grad(), a forward
\* pass over new inputs, backward() on an output, a set_data per parameter),
\* when backward() has returned every parameter's gradient is the derivative
\* of this iteration's output by it.
C14_IterationGradient ==
    (Training /\ pc = "returned") =>
        \A p \in Members : Eq(heap[p].grad, Deriv(heap, this, p))

\* backward() has returned in an iteration after the first, on the output of
\* a two-layer MLP whose parameters set_data has changed
C14_Witness ==
    /\ Training /\ pc = "returned" /\ passes >= 2
    /\ Len(mlp.nouts) = 2
    /\ \A p \in Members :
          /\ heap[p].grad # R(0)
          /\ Eq(heap[p].grad, Deriv(heap, this, p))
    /\ \E p \in Members : heap[p].data \notin WeightVals \cup {R(0)}

\* ------------------------------------------- a second pass after a reset
\* when backward(root) has returned, every leaf of root's graph holds
\* d root / d leaf, which is what the first pass gives it
LeavesAsFirstPass ==
    \A u \in Reach(heap, this) :
        IsLeaf(u) => Eq(heap[u].grad, Deriv(heap, this, u))

\* before the second backward(root) the client called zero_grad() on every
\* node of root's graph but root
GraphWasReset ==
    passes = 2 =>
        \A u \in Reach(heap, this) \ {this} :
            \E i \in 1..Len(prog) : prog[i] = Stmt("zero_grad", u, 0, R(0))

\* C24 as stated: after zero_grad() on the leaves only, backward(root) again
\* on the same graph gives every leaf the gradient the first pass gave it,
\* for graphs of any depth.
C24_LeafResetSuffices ==
    (prog \in ResetProgs /\ pc = "returned") => LeavesAsFirstPass

\* C24 amended: after zero_grad() on every node below root, leaves and the
\* nodes between root and the leaves alike, backward(root) again gives every
\* leaf the gradient the first pass gave it; zero_grad() on the leaves is
\* enough when every operand of root is a leaf.
C24_GraphResetSuffices ==
    (prog \in ResetProgs /\ pc = "returned" /\ GraphWasReset) =>
        LeavesAsFirstPass

\* the second backward(e) has returned for d = a * b, e = d * c after
\* zero_grad() on a, b, c and d, and the leaves' gradients are not 0
C24_Witness ==
    /\ prog \in ResetProgs /\ pc = "returned" /\ passes = 2
    /\ Len(heap) = 5 /\ this = 5
    /\ heap[4].args = <<1, 2>> /\ heap[5].args = <<4, 3>>
    /\ heap[4].op = "*" /\ heap[5].op = "*"
    /\ GraphWasReset
    /\ \A u \in 1..4 : pre[u] = R(0)
    /\ LeavesAsFirstPass
    /\ \A u \in 1..3 : heap[u].grad # R(0)

\* a = 2, b = a + a, c = b + b, backward(c), zero_grad() on the leaves,
\* backward(c): a.gradient is 8, the first pass gave 4
C24_LeafResetOnly ==
    /\ prog \in ResetProgs /\ pc = "returned" /\ passes = 2
    /\ Len(heap) = 5 /\ this = 5
    /\ heap[4].args = <<1, 1>> /\ heap[5].args = <<4, 4>>
    /\ heap[4].op = "+" /\ heap[5].op = "+"
    /\ pre[1] = R(0) /\ pre[4] = R(2) /\ heap[1].grad = R(8)

\* ------------------------------------------------ operand visitation order
\* Value::backward as one step: the loop over topo from position i on
RECURSIVE Sweep(_, _, _)
Sweep(h, tp, i) ==
    IF i > Len(tp) THEN h ELSE Sweep(backward_fn(h, tp[i]), tp, i + 1)

\* Value::backward(v) on the heap h when the m_prev sets iterate in the
\* pointer order rev
RunBackward(h, v, rev) ==
    LET st == build_topo(h, rev, v, [visited |-> {}, topo |-> <<>>])
    IN Sweep([h EXCEPT ![v].grad = R(1)], Reverse(st.topo), 1)

\* the heap as it was when the last backward() began
PreHeap == [i \in 1..Len(heap) |-> [heap[i] EXCEPT !.grad = pre[i]]]

\* the gradients that the last backward() left are those that it leaves in
\* every pointer order of the operand sets
SameInEveryOrder ==
    \A rev \in PointerOrders(heap) :
        LET h == RunBackward(PreHeap, this, rev)
        IN \A u \in Ptrs : h[u].grad = heap[u].grad

\* C22 as stated: the gradients that backward(root) leaves on all nodes are
\* the same for every order in which the operands are visited.
C22_OrderIndependent ==
    pc = "returned" => SameInEveryOrder

\* C22 amended: when all gradients were 0 before backward(root) and no node
\* is used as an operand more than twice in root's graph, the gradients
\* that backward(root) leaves are the same for every order in which the
\* operands are visited.  (A third increment, or a gradient left from an
\* earlier pass, makes a sum of three doubles, which rounds by its order.)
C22_OrderIndependentUpToTwoUses ==
    (/\ pc = "returned"
     /\ \A u \in Ptrs : pre[u] = R(0)
     /\ \A u \in Ptrs : Uses(heap, this, u) <= 2) => SameInEveryOrder

\* backward(s) has returned for s = a * x + a * y with x = 2^MantissaBits and
\* y = 1: a is used twice and its gradient is the rounded sum x + y = x
C22_Witness ==
    /\ pc = "returned" /\ passes = 1 /\ this = 6
    /\ heap[2].data = R(2 ^ MantissaBits) /\ heap[3].data = R(1)
    /\ Uses(heap, this, 1) = 2 /\ \A u \in Ptrs : Uses(heap, this, u) <= 2
    /\ heap[1].grad = R(2 ^ MantissaBits)
    /\ SameInEveryOrder

\* t = (a * x + a * y) + a with a = 1, x = 2^MantissaBits, y = -x: a's
\* gradient is 1 + y + x = 1 when a * y is swept before a * x, and the other
\* order gives (1 + x) + y = x + y = 0
C22_ThreeUses ==
    /\ pc = "returned" /\ passes = 1 /\ this = 7
    /\ heap[7].op = "+"
    /\ heap[1].data = R(1)
    /\ heap[2].data = R(2 ^ MantissaBits) /\ heap[3].data = R(-(2 ^ MantissaBits))
    /\ Uses(heap, this, 1) = 3
    /\ heap[1].grad = R(1)
    /\ \E rev \in PointerOrders(heap) :
          RunBackward(PreHeap, this, rev)[1].grad = R(0)

\* ------------------------------------------------------------ termination
\* while the loop of backward(root) runs, topo holds every node that root
\* reaches once and no other node, root first, and the loop is at one of them
CollectedOnce ==
    pc = "sweep" =>
        /\ Range(topo) = Reach(heap, this)
        /\ Len(topo) = Cardinality(Reach(heap, this))
        /\ topo[1] = this
        /\ idx \in 1..Len(topo)
        /\ \A i \in 1..Len(topo) : calls[topo[i]] = (IF i < idx THEN 1 ELSE 0)

\* C23: backward(root) terminates on every finite graph, a single leaf
\* included: the traversal collects each node that root reaches once, also
\* one that several consumers share, and the sweep runs one backward
\* procedure per collected node and returns.
C23_Terminates ==
    /\ []CollectedOnce
    /\ (pc = "sweep") ~> (pc = "returned")

\* the loop of backward(c) is at its last node, the leaf a, for b = a + a and
\* c = b * a or c = a * b, where a is an operand of b and of c
C23_Witness ==
    /\ pc = "sweep" /\ Len(heap) = 3 /\ this = 3
    /\ heap[2].args = <<1, 1>> /\ heap[3].prev = {1, 2}
    /\ Len(topo) = 3 /\ idx = 3 /\ topo[3] = 1
    /\ calls[3] = 1 /\ calls[2] = 1 /\ calls[1] = 0

\* backward() on a single leaf has returned
C23_SingleLeaf ==
    /\ pc = "returned" /\ Len(heap) = 1 /\ this = 1
    /\ heap[1].grad = R(1) /\ calls[1] = 1

\* ---------------------------------------------------- release of the nodes
\* C21: when the client has dropped every handle it held to the nodes of an
\* expression, the reference count of each of those nodes is 0, leaf and
\* operation nodes alike: no node is kept alive by an ownership cycle, in
\* particular not by its own m_backward_fn owning a reference to it.
C21_ReleasedOnceUnreachable ==
    handles = {} =>
        \A p \in Ptrs : use_count(heap, handles, freed, p) = 0

\* c = a + b with every handle dropped: c is owned by the out that its own
\* closure captured, a and b by c's m_prev and by c's closure
C21_SelfOwned ==
    /\ handles = {} /\ Len(heap) = 3 /\ freed = {}
    /\ heap[3].op = "+" /\ heap[3].args = <<1, 2>> /\ heap[3].fn.out = 3
    /\ use_count(heap, handles, freed, 3) = 1
    /\ use_count(heap, handles, freed, 1) = 2
    /\ use_count(heap, handles, freed, 2) = 2

\* A node that is never released is an operation node, which its own closure
\* owns, or is reached from one; a leaf that is no operand is released with
\* its last handle.
C21_KeptByOwnClosure ==
    \A p \in Ptrs \ (handles \cup freed) :
        \E q \in Ptrs \ freed :
            /\ heap[q].fn.out = q
            /\ p \in Reach(heap, q)

\* a leaf that is no operand has been destroyed
C21_LeafReleased ==
    /\ handles = {} /\ Len(heap) = 2 /\ freed = {1, 2}
    /\ heap[1].prev = {} /\ heap[2].prev = {}
====
